---- MODULE Spec2Model ----
(***************************************************************************)
(* A model of home.py, the Streamlit page of ascorchat: the environment    *)
(* check, the cached query engine, the password gate and the chat turn     *)
(* with its clear-and-rebuild retry.                                       *)
(*                                                                         *)
(* Text is a sequence of one-character strings.  Python's None is the      *)
(* one-element sequence None, which is no text.  A session's               *)
(* st.session_state is a function from the keys it holds to their values.  *)
(*                                                                         *)
(* One script run is cut where it touches the process-wide cache or the    *)
(* engine: Rerun (callback, lines 7-174), Query1 (181), Clear (184),       *)
(* Rebuild (185), Retry (186); pc orders the pieces.  run[s].failed keeps, *)
(* across runs, the transcript positions of the user messages whose turn   *)
(* ended with the error.                                                   *)
(***************************************************************************)
EXTENDS Naturals, Sequences, FiniteSets, TLC

VARIABLES
    env,            \* os.environ: APP_PASSWORD, OPENAI_API_KEY (lines 7-8)
    query_params,   \* per session: the "id" query parameter (line 15)
    session_state,  \* per session: st.session_state
    cache,          \* st.cache_resource entry of get_query_engine("context"); 0 is empty
    qe,             \* per session: the script's global qe during a run; 0 outside one
    prompt,         \* per session: the script's global prompt during a turn
    pc,             \* per session: where the script run stands
    page,           \* per session: what the last script run rendered
    run,            \* per session: record of the current or last script run
    nbuilds,        \* engines constructed so far (the newest engine's identity)
    nclears,        \* st.cache_resource.clear() calls so far
    nturns          \* chat turns started so far

vars == <<env, query_params, session_state, cache, qe, prompt, pc, page, run,
          nbuilds, nclears, nturns>>

\* ---------------------------------------------------------------- bounds
MaxTurns == 2

Sessions == {"s1", "s2"}

\* ------------------------------------------------------------------ text
None == <<"None">>
NonAscii == "U+00E9"
WhiteSpace == {" ", "\n"}

\* Values os.environ.get may give for the two variables.
Secrets == {None, <<>>, <<"a", "B">>, <<NonAscii>>}
ApiKeys == {None, <<>>, <<"k">>}
\* Values of the "id" query parameter; None when the URL has none.
Ids == {None, <<"7">>}
\* What a user may type into the password field.
Candidates == {<<"a">>, <<"a", "B">>, <<"a", "b">>, <<"a", "B", " ">>, <<NonAscii>>}
\* What a user may send through the chat input.
Prompts == {<<>>, <<" ", "\n">>, <<"h", "i">>, <<" ", "h", "i">>}
\* What qe.query may return: an object with a response attribute, or one
\* without it (getattr gives None), and its str().
Results == {[response |-> <<"h", "e", "l", "l", "o">>, str |-> <<"h", "e", "l", "l", "o">>],
            [response |-> None, str |-> <<"h", "e", "l", "l", "o">>],
            [response |-> <<>>, str |-> <<"h", "e", "l", "l", "o">>]}

\* Python truthiness of an optional text.
Truthy(x) == x # None /\ x # <<>>

RECURSIVE lstrip(_)
lstrip(t) == IF t # <<>> /\ Head(t) \in WhiteSpace THEN lstrip(Tail(t)) ELSE t

RECURSIVE rstrip(_)
rstrip(t) ==
    IF t # <<>> /\ t[Len(t)] \in WhiteSpace THEN rstrip(SubSeq(t, 1, Len(t) - 1)) ELSE t

\* str.strip()
strip(t) == rstrip(lstrip(t))

IsAscii(t) == \A i \in 1..Len(t) : t[i] # NonAscii

\* hmac.compare_digest on two str: "TypeError" when either holds a
\* non-ASCII character, else whether they are equal (length and every
\* character).
compare_digest(a, b) ==
    IF ~IsAscii(a) \/ ~IsAscii(b) THEN "TypeError"
    ELSE IF Len(a) = Len(b) /\ \A i \in 1..Len(a) : a[i] = b[i] THEN "True"
    ELSE "False"

\* ----------------------------------------------------------- dictionaries
EmptyState == [k \in {} |-> TRUE]
Has(d, k) == k \in DOMAIN d
Put(d, k, v) == [x \in DOMAIN d \cup {k} |-> IF x = k THEN v ELSE d[x]]
Del(d, k) == [x \in DOMAIN d \ {k} |-> d[x]]

\* st.session_state.get("password_correct", False)
password_correct(ss) == IF Has(ss, "password_correct") THEN ss["password_correct"] ELSE FALSE

\* The transcript of a session state: its messages, none while the key is absent.
messages(ss) == IF Has(ss, "messages") THEN ss["messages"] ELSE <<>>

\* ------------------------------------------------------------ the program
\* Mutant of EnvMissing: the API key is not checked.
EnvMissing_secret_only == ~Truthy(env.APP_PASSWORD)

\* Line 10: not APP_PASSWORD or not OPENAI_API_KEY.
EnvMissing == ~Truthy(env.APP_PASSWORD) \/ ~Truthy(env.OPENAI_API_KEY)

\* Mutant of get_query_engine: on a miss nothing is built, the empty entry
\* is handed back.
get_query_engine_unbuilt(c, n) == [qe |-> c, cache |-> c, nbuilds |-> n]

\* Mutant of get_query_engine: without the cache, every call builds.
get_query_engine_uncached(c, n) == [qe |-> n + 1, cache |-> n + 1, nbuilds |-> n + 1]

\* get_query_engine("context") under st.cache_resource, from cache entry c
\* with n engines built so far: the cached engine, or a newly built one
\* that is stored in the cache.
get_query_engine(c, n) ==
    IF c # 0 THEN [qe |-> c, cache |-> c, nbuilds |-> n]
    ELSE [qe |-> n + 1, cache |-> n + 1, nbuilds |-> n + 1]

\* Mutant of password_entered: the submitted text is not deleted on a match.
password_entered_kept(ss) ==
    LET eq == compare_digest(ss["password"], env.APP_PASSWORD)
    IN  IF eq = "TypeError" THEN [raised |-> TRUE, ss |-> ss]
        ELSE IF eq = "True"
             THEN [raised |-> FALSE, ss |-> Put(ss, "password_correct", TRUE)]
             ELSE [raised |-> FALSE, ss |-> Put(ss, "password_correct", FALSE)]

\* check_password.password_entered, the on_change callback of the password
\* field, on a session state whose "password" key holds the submitted text.
password_entered(ss) ==
    LET eq == compare_digest(ss["password"], env.APP_PASSWORD)
    IN  IF eq = "TypeError" THEN [raised |-> TRUE, ss |-> ss]
        ELSE IF eq = "True"
             THEN [raised |-> FALSE,
                   ss |-> Del(Put(ss, "password_correct", TRUE), "password")]
             ELSE [raised |-> FALSE, ss |-> Put(ss, "password_correct", FALSE)]

\* Mutant of check_password: the gate lets every session through.
check_password_open(ss) == TRUE

\* check_password, lines 101-120: what it returns.
check_password(ss) == password_correct(ss)

\* Line 118: whether the "Password incorrect" warning is shown.
ShowsWarning(ss) == Has(ss, "password_correct") /\ ~ss["password_correct"]

\* The text_input of line 108 holds its value under key "password".
RenderPasswordInput(ss) == IF Has(ss, "password") THEN ss ELSE Put(ss, "password", <<>>)

SYSTEM_PROMPT == <<"You are a neutral assistant that answers questions about the Dutch national election. [...]">>

Message(role, content) == [role |-> role, content |-> content]

\* Mutant of InitSession: the transcript is seeded on every run, without the
\* "messages" not in st.session_state test.
InitSession_unguarded(ss) ==
    LET a == IF Has(ss, "openai_model") THEN ss ELSE Put(ss, "openai_model", "gpt4o")
    IN  Put(a, "messages", <<Message("system", SYSTEM_PROMPT)>>)

\* Lines 143-164: openai_model, then the two "messages" not in
\* st.session_state blocks, one after the other.
InitSession(ss) ==
    LET a == IF Has(ss, "openai_model") THEN ss ELSE Put(ss, "openai_model", "gpt4o")
        b == IF Has(a, "messages") THEN a ELSE Put(a, "messages", <<>>)
        c == IF Has(b, "messages") THEN b
             ELSE Put(b, "messages", <<Message("system", SYSTEM_PROMPT)>>)
    IN  c

\* Mutant of AppendMessage: the message is inserted at the front.
AppendMessage_front(ss, role, content) ==
    Put(ss, "messages", <<Message(role, content)>> \o ss["messages"])

\* st.session_state.messages.append({"role": ..., "content": ...})
AppendMessage(ss, role, content) ==
    Put(ss, "messages", Append(ss["messages"], Message(role, content)))

\* Mutant of StartsTurn: the prompt is not stripped before the test.
StartsTurn_unstripped(p) == Truthy(p)

\* Lines 170-171: if prompt := st.chat_input(...): if prompt.strip():
StartsTurn(p) == Truthy(p) /\ Truthy(strip(p))

\* Line 188: getattr(result, "response", None) or str(result)
response_text(result) == IF Truthy(result.response) THEN result.response ELSE result.str

BlankPage == [title |-> None, intro |-> FALSE, password_input |-> FALSE,
              warning |-> FALSE, chat_input |-> FALSE, error |-> "none"]

NoRun == [kind |-> "none", text |-> None, pre |-> <<>>, end |-> "none",
          gate |-> FALSE, startbuilds |-> 0,
          q1 |-> "none", q2 |-> "none", arg1 |-> None, arg2 |-> None,
          failed_on |-> 0, retried_on |-> 0, clears |-> 0, builds |-> 0,
          failed |-> {}]

\* Mutant of Events: the password field is rendered, and can be submitted,
\* whether or not the session is unlocked.
Events_password_always(s) ==
    {[kind |-> "rerun", text |-> None]}
    \cup [kind : {"password"}, text : Candidates]
    \cup (IF page[s].chat_input
          THEN {e \in [kind : {"chat"}, text : Prompts] :
                    StartsTurn(e.text) => nturns < MaxTurns}
          ELSE {})

\* The user events that start a script run: a plain rerun, a submission of
\* the password field, a submission of the chat input.  A widget sends an
\* event only if the last run rendered it.
Events(s) ==
    {[kind |-> "rerun", text |-> None]}
    \cup (IF page[s].password_input
          THEN [kind : {"password"}, text : Candidates] ELSE {})
    \cup (IF page[s].chat_input
          THEN {e \in [kind : {"chat"}, text : Prompts] :
                    StartsTurn(e.text) => nturns < MaxTurns}
          ELSE {})

Init ==
    /\ env \in [APP_PASSWORD : Secrets, OPENAI_API_KEY : ApiKeys]
    /\ query_params \in [Sessions -> Ids]
    /\ session_state = [s \in Sessions |-> EmptyState]
    /\ cache = 0
    /\ qe = [s \in Sessions |-> 0]
    /\ prompt = [s \in Sessions |-> None]
    /\ pc = [s \in Sessions |-> "idle"]
    /\ page = [s \in Sessions |-> BlankPage]
    /\ run = [s \in Sessions |-> NoRun]
    /\ nbuilds = 0
    /\ nclears = 0
    /\ nturns = 0

\* A script run ends: the script's globals are gone.
EndRun(s, ss, pg, rn) ==
    /\ session_state' = [session_state EXCEPT ![s] = ss]
    /\ page' = [page EXCEPT ![s] = pg]
    /\ run' = [run EXCEPT ![s] = rn]
    /\ pc' = [pc EXCEPT ![s] = "idle"]
    /\ qe' = [qe EXCEPT ![s] = 0]
    /\ prompt' = [prompt EXCEPT ![s] = None]

\* One script run of session s on event ev, from the widget callback to the
\* end of the run or, in a chat turn, to the point before line 181.
Rerun(s, ev) ==
    /\ pc[s] = "idle"
    /\ ev \in Events(s)
    /\ LET ss0 == session_state[s]
           \* the widget's new value is in session state before its callback runs
           ss1 == IF ev.kind = "password" THEN Put(ss0, "password", ev.text) ELSE ss0
           cb  == IF ev.kind = "password" THEN password_entered(ss1)
                  ELSE [raised |-> FALSE, ss |-> ss1]
           p   == IF ev.kind = "chat" THEN ev.text ELSE None
           rn  == [NoRun EXCEPT !.kind = ev.kind, !.text = ev.text, !.pre = messages(ss0),
                                !.failed = run[s].failed]
           e   == get_query_engine(cache, nbuilds)
           rn1 == [rn EXCEPT !.startbuilds = e.nbuilds - nbuilds, !.gate = TRUE]
           top == [BlankPage EXCEPT !.title = query_params[s]]
       IN
       IF cb.raised THEN
           \* the callback raised: the exception is shown, the script is not run
           /\ EndRun(s, cb.ss, [BlankPage EXCEPT !.error = "exception"],
                     [rn EXCEPT !.end = "callback"])
           /\ UNCHANGED <<env, query_params, cache, nbuilds, nclears, nturns>>
       ELSE IF EnvMissing THEN
           \* lines 10-12
           /\ EndRun(s, cb.ss, [BlankPage EXCEPT !.error = "env"], [rn EXCEPT !.end = "env"])
           /\ UNCHANGED <<env, query_params, cache, nbuilds, nclears, nturns>>
       ELSE IF query_params[s] = None THEN
           \* line 15: KeyError
           /\ EndRun(s, cb.ss, [BlankPage EXCEPT !.error = "exception"],
                     [rn EXCEPT !.end = "uid"])
           /\ UNCHANGED <<env, query_params, cache, nbuilds, nclears, nturns>>
       ELSE
           \* line 53
           /\ cache' = e.cache
           /\ nbuilds' = e.nbuilds
           /\ UNCHANGED <<env, query_params, nclears>>
           /\ IF ~check_password(cb.ss) THEN
                  \* lines 72-87, 105-124
                  /\ EndRun(s, RenderPasswordInput(cb.ss),
                            [top EXCEPT !.intro = TRUE, !.password_input = TRUE,
                                        !.warning = ShowsWarning(cb.ss)],
                            [rn1 EXCEPT !.end = "gate"])
                  /\ UNCHANGED nturns
              ELSE
                  LET ss2 == InitSession(cb.ss)
                      pg  == [top EXCEPT !.intro = ~password_correct(cb.ss),
                                         !.chat_input = TRUE]
                  IN  IF ~StartsTurn(p) THEN
                          /\ EndRun(s, ss2, pg, [rn1 EXCEPT !.end = "idle"])
                          /\ UNCHANGED nturns
                      ELSE
                          \* lines 172-174
                          /\ session_state' =
                                 [session_state EXCEPT ![s] = AppendMessage(ss2, "user", p)]
                          /\ page' = [page EXCEPT ![s] = pg]
                          /\ run' = [run EXCEPT ![s] = [rn1 EXCEPT !.end = "turn"]]
                          /\ pc' = [pc EXCEPT ![s] = "query"]
                          /\ qe' = [qe EXCEPT ![s] = e.qe]
                          /\ prompt' = [prompt EXCEPT ![s] = p]
                          /\ nturns' = nturns + 1

\* Mutant of QueryArg: the prompt is stripped before it is sent.
QueryArg_stripped(s) == strip(prompt[s])

\* Lines 181 and 186: the argument of qe.query(prompt).
QueryArg(s) == prompt[s]

\* Mutant of Answer: the assistant message is appended twice.
Answer_twice(s, result, rn) ==
    EndRun(s, AppendMessage(AppendMessage(session_state[s], "assistant", response_text(result)),
                            "assistant", response_text(result)),
           page[s], [rn EXCEPT !.end = "answered"])

\* Lines 188-190 after a query that returned result.
Answer(s, result, rn) ==
    EndRun(s, AppendMessage(session_state[s], "assistant", response_text(result)),
           page[s], [rn EXCEPT !.end = "answered"])

\* Line 181: result = qe.query(prompt), which returns or raises.
Query1(s) ==
    /\ pc[s] = "query"
    /\ LET rn == [run[s] EXCEPT !.arg1 = QueryArg(s), !.failed_on = qe[s]]
       IN  \/ \E result \in Results : Answer(s, result, [rn EXCEPT !.q1 = "ok"])
           \/ /\ run' = [run EXCEPT ![s] = [rn EXCEPT !.q1 = "raise"]]
              /\ pc' = [pc EXCEPT ![s] = "clear"]
              /\ UNCHANGED <<session_state, page, qe, prompt>>
    /\ UNCHANGED <<env, query_params, cache, nbuilds, nclears, nturns>>

\* Mutant of Clear: the cache is not cleared before the rebuild.
Clear_skipped(s) ==
    /\ pc[s] = "clear"
    /\ pc' = [pc EXCEPT ![s] = "rebuild"]
    /\ UNCHANGED <<env, query_params, session_state, cache, qe, prompt, page, run,
                   nbuilds, nclears, nturns>>

\* Line 184: st.cache_resource.clear()
Clear(s) ==
    /\ pc[s] = "clear"
    /\ cache' = 0
    /\ nclears' = nclears + 1
    /\ run' = [run EXCEPT ![s].clears = @ + 1]
    /\ pc' = [pc EXCEPT ![s] = "rebuild"]
    /\ UNCHANGED <<env, query_params, session_state, qe, prompt, page, nbuilds,
                   nturns>>

\* Line 185: qe = get_query_engine("context")
Rebuild(s) ==
    /\ pc[s] = "rebuild"
    /\ LET e == get_query_engine(cache, nbuilds)
       IN  /\ cache' = e.cache
           /\ nbuilds' = e.nbuilds
           /\ qe' = [qe EXCEPT ![s] = e.qe]
           /\ run' = [run EXCEPT ![s].builds = @ + (e.nbuilds - nbuilds)]
    /\ pc' = [pc EXCEPT ![s] = "retry"]
    /\ UNCHANGED <<env, query_params, session_state, prompt, page, nclears,
                   nturns>>

\* Mutant of Retry: a retry that raises still appends an assistant message.
Retry_appends(s) ==
    /\ pc[s] = "retry"
    /\ LET rn == [run[s] EXCEPT !.arg2 = QueryArg(s), !.retried_on = qe[s]]
       IN  \/ \E result \in Results : Answer(s, result, [rn EXCEPT !.q2 = "ok"])
           \/ EndRun(s, AppendMessage(session_state[s], "assistant", <<"?">>),
                     [page[s] EXCEPT !.error = "query"],
                     [rn EXCEPT !.q2 = "raise", !.end = "error",
                                !.failed = @ \cup {Len(messages(session_state[s]))}])
    /\ UNCHANGED <<env, query_params, cache, nbuilds, nclears, nturns>>

\* Line 186: result = qe.query(prompt) again; if it raises, lines 191-192.
Retry(s) ==
    /\ pc[s] = "retry"
    /\ LET rn == [run[s] EXCEPT !.arg2 = QueryArg(s), !.retried_on = qe[s]]
       IN  \/ \E result \in Results : Answer(s, result, [rn EXCEPT !.q2 = "ok"])
           \/ EndRun(s, session_state[s], [page[s] EXCEPT !.error = "query"],
                     [rn EXCEPT !.q2 = "raise", !.end = "error",
                                !.failed = @ \cup {Len(messages(session_state[s]))}])
    /\ UNCHANGED <<env, query_params, cache, nbuilds, nclears, nturns>>

Start(s) == \E ev \in Events(s) : Rerun(s, ev)

Step(s) == Start(s) \/ Query1(s) \/ Clear(s) \/ Rebuild(s) \/ Retry(s)

\* The sessions' script runs interleave: each session runs in its own thread.
Next == \E s \in Sessions : Step(s)

Spec == Init /\ [][Next]_vars

\* One script run at a time: a run starts only while no other is under way.
StartAlone(s) == (\A t \in Sessions : pc[t] = "idle") /\ Start(s)

NextSerial ==
    \E s \in Sessions : StartAlone(s) \/ Query1(s) \/ Clear(s) \/ Rebuild(s) \/ Retry(s)

SpecSerial == Init /\ [][NextSerial]_vars

\* A script run that has started goes on: its thread is not abandoned, and
\* qe.query returns or raises (request_timeout, line 36).
RunGoesOn(s) == Query1(s) \/ Clear(s) \/ Rebuild(s) \/ Retry(s)

SpecFair == Spec /\ \A s \in Sessions : WF_vars(RunGoesOn(s))

\* ------------------------------------------------------------- properties
hi == <<"h", "i">>
hello == <<"h", "e", "l", "l", "o">>

Transcript(s) == messages(session_state[s])
Unlocked(s) == password_correct(session_state[s])
IsPrefix(a, b) == Len(a) <= Len(b) /\ SubSeq(b, 1, Len(a)) = a
Blank(t) == \A i \in 1..Len(t) : t[i] \in WhiteSpace
Count(role, t) == Cardinality({i \in 1..Len(t) : t[i].role = role})
\* The last script run of s was a password submission and is over.
Submitted(s) == pc[s] = "idle" /\ run[s].kind = "password"

\* C1: after every submission of the password field, password_correct is
\* true if and only if the submitted text equals APP_PASSWORD.
C1_UnlockedIffEqual ==
    \A s \in Sessions : Submitted(s) => (Unlocked(s) <=> run[s].text = env.APP_PASSWORD)

\* What C2 asks of a session that is not unlocked.
C2_Locked(s) ==
    ~Unlocked(s) =>
        /\ Transcript(s) = <<>>
        /\ pc[s] = "idle"
        /\ run[s].q1 = "none" /\ run[s].q2 = "none"

\* A step appends to (or otherwise changes) the transcript of s.
Appends(s) == Transcript(s)' # Transcript(s)
\* A step issues a query of s to the engine.
Queries(s) ==
    \/ run[s].q1 = "none" /\ run[s]'.q1 # "none"
    \/ run[s].q2 = "none" /\ run[s]'.q2 # "none"

\* C2: a session that is not unlocked has an absent or empty transcript and
\* no chat turn or query under way or made; and every step that appends a
\* message or issues a query is taken by a session that is unlocked.
C2_Gated ==
    /\ [](\A s \in Sessions : C2_Locked(s))
    /\ [][\A s \in Sessions :
            /\ Appends(s) => Unlocked(s)'
            /\ Queries(s) => Unlocked(s) /\ Unlocked(s)']_vars

\* C2 witness: one session is still locked after a mismatching submission
\* while another, unlocked, has had a question answered.
C2_Witness ==
    \E s, t \in Sessions :
        /\ ~Unlocked(s) /\ Submitted(s) /\ run[s].end = "gate"
        /\ Unlocked(t) /\ pc[t] = "idle" /\ run[t].end = "answered"

\* C3: once the first question of a session, "hi", has been answered with
\* "hello", the transcript is [system: SYSTEM_PROMPT, user: hi,
\* assistant: hello].
C3_SystemPromptFirst ==
    \A s \in Sessions :
        (/\ pc[s] = "idle" /\ run[s].end = "answered" /\ run[s].text = hi
         /\ Count("user", Transcript(s)) = 1
         /\ Transcript(s)[Len(Transcript(s))] = Message("assistant", hello))
        => Transcript(s) = <<Message("system", SYSTEM_PROMPT), Message("user", hi),
                             Message("assistant", hello)>>

\* A turn of s is over whose first query raised and whose retry returned.
Recovered(s) == pc[s] = "idle" /\ run[s].q1 = "raise" /\ run[s].q2 = "ok"

\* C4: with one script run at a time, a turn whose first query raised and
\* whose retry returned has appended the user message and exactly one
\* assistant message, cleared the cache once and built one engine.
C4_RetryOnce ==
    \A s \in Sessions :
        Recovered(s) =>
            /\ Len(Transcript(s)) = Len(run[s].pre) + 2
            /\ SubSeq(Transcript(s), 1, Len(run[s].pre) + 1)
                   = Append(run[s].pre, Message("user", run[s].text))
            /\ Transcript(s)[Len(Transcript(s))].role = "assistant"
            /\ run[s].clears = 1
            /\ run[s].builds = 1

C4_Witness == \E s \in Sessions : Recovered(s) /\ Len(run[s].pre) > 0

\* A turn of s is over in which the first query and the retry both raised.
FailedTwice(s) == pc[s] = "idle" /\ run[s].q1 = "raise" /\ run[s].q2 = "raise"

\* C5: after a turn in which both queries raised, the error is displayed
\* and the transcript is the one before the turn followed by the turn's
\* user message alone.
C5_NoAnswerOnFailure ==
    \A s \in Sessions :
        FailedTwice(s) =>
            /\ page[s].error = "query"
            /\ Transcript(s) = Append(run[s].pre, Message("user", run[s].text))

C5_Witness == \E s \in Sessions : FailedTwice(s) /\ Len(run[s].pre) > 0

\* The last event of s carried no chat text, or a blank one.
NoChatText(s) == run[s].kind \in {"rerun", "password"} \/ (run[s].kind = "chat" /\ Blank(run[s].text))

\* C6: a script run started by a blank chat submission, or by an event
\* with no chat input, leaves the transcript as it was, issues no query
\* and does not clear the cache.
C6_BlankIgnored ==
    \A s \in Sessions :
        NoChatText(s) =>
            /\ pc[s] = "idle"
            /\ Transcript(s) = run[s].pre
            /\ run[s].q1 = "none" /\ run[s].q2 = "none"
            /\ run[s].clears = 0 /\ run[s].builds = 0

\* C6 witness: whitespace was submitted to a session with a transcript.
C6_Witness ==
    \E s \in Sessions :
        /\ run[s].kind = "chat" /\ run[s].text = <<" ", "\n">>
        /\ Len(Transcript(s)) > 1

\* C7: every step leaves each session's earlier transcript a prefix of its
\* later one.
C7_AppendOnly ==
    [][\A s \in Sessions : IsPrefix(Transcript(s), Transcript(s)')]_vars

\* C7 witness: a transcript of two turns, the first of which failed.
C7_Witness ==
    \E s \in Sessions :
        /\ Len(Transcript(s)) = 3 /\ pc[s] = "idle"
        /\ Transcript(s)[1].role = "user" /\ Transcript(s)[2].role = "user"

\* C8: after every password submission that was compared, matching or
\* not, session state does not hold the submitted text under "password".
C8_CandidateDiscarded ==
    \A s \in Sessions :
        (Submitted(s) /\ run[s].end # "callback") =>
            ~(Has(session_state[s], "password") /\ session_state[s]["password"] = run[s].text)

\* C8 amended: an unlocked session holds no "password" key, so a matching
\* submission is discarded; a mismatching one that was compared stays
\* under the key.
C8_DiscardedOnMatch ==
    \A s \in Sessions :
        /\ Unlocked(s) => ~Has(session_state[s], "password")
        /\ (Submitted(s) /\ run[s].end = "gate") =>
               /\ Has(session_state[s], "password")
               /\ session_state[s]["password"] = run[s].text

C8_Witness ==
    \E s, t \in Sessions :
        /\ Submitted(s) /\ Unlocked(s) /\ run[s].text = env.APP_PASSWORD
        /\ Submitted(t) /\ run[t].end = "gate" /\ run[t].text = <<"a", "b">>

\* C9: after a mismatching submission password_correct is explicitly
\* false, the warning is shown and the password field is offered again.
C9_MismatchRecoverable ==
    \A s \in Sessions :
        (Submitted(s) /\ run[s].text # env.APP_PASSWORD) =>
            /\ Has(session_state[s], "password_correct")
            /\ ~session_state[s]["password_correct"]
            /\ page[s].warning
            /\ page[s].password_input

\* C10: while APP_PASSWORD or OPENAI_API_KEY is absent or empty, no engine
\* is built, no run reaches check_password, and no session state is set.
C10_HaltsBeforeServing ==
    (env.APP_PASSWORD \in {None, <<>>} \/ env.OPENAI_API_KEY \in {None, <<>>}) =>
        /\ nbuilds = 0 /\ cache = 0
        /\ \A s \in Sessions :
            /\ ~run[s].gate
            /\ session_state[s] = EmptyState
            /\ pc[s] = "idle"
            /\ ~page[s].password_input /\ ~page[s].chat_input

\* C10 witness: a request was made with the secret set and the API key
\* absent, and it halted at the environment check.
C10_Witness ==
    /\ Truthy(env.APP_PASSWORD) /\ env.OPENAI_API_KEY = None
    /\ \E s \in Sessions : run[s].end = "env" /\ page[s].error = "env"

\* The only script runs of s so far were plain requests (no widget event).
OnlyRequested(s) ==
    /\ pc[s] = "idle" /\ run[s].kind = "rerun"
    /\ ~Has(session_state[s], "password_correct")
    /\ Has(session_state[s], "password") => session_state[s]["password"] = <<>>

\* C11: two sessions that made the same plain requests and differ at most
\* in the "id" query parameter (any value, or none) ran the same steps and
\* are in the same state, the page title apart.
C11_IdCosmetic ==
    \A s, t \in Sessions :
        (OnlyRequested(s) /\ OnlyRequested(t)) =>
            /\ run[s].end = run[t].end
            /\ run[s].gate = run[t].gate
            /\ session_state[s] = session_state[t]
            /\ [page[s] EXCEPT !.title = None] = [page[t] EXCEPT !.title = None]

\* C12: initialisation is create-if-absent: a script run that starts on a
\* session that has a transcript keeps it, adding at most the run's user
\* message; and a transcript holds at most one system message, which is
\* then its first entry.
C12_CreateIfAbsent ==
    /\ [](\A s \in Sessions :
            /\ Count("system", Transcript(s)) <= 1
            /\ Count("system", Transcript(s)) = 1 => Transcript(s)[1].role = "system")
    /\ [][\A s \in Sessions :
            (Has(session_state[s], "messages") /\ pc[s] = "idle" /\ run[s]' # run[s]) =>
                /\ Has(session_state[s]', "messages")
                /\ \/ Transcript(s)' = Transcript(s)
                   \/ Transcript(s)' = Append(Transcript(s), Message("user", run[s]'.text))]_vars

\* C12 witness: a session with an answered question was run again and its
\* transcript is as before.
C12_Witness ==
    \E s \in Sessions :
        /\ pc[s] = "idle" /\ run[s].kind = "rerun" /\ run[s].end = "idle"
        /\ Len(Transcript(s)) >= 2 /\ Transcript(s) = run[s].pre

\* C13: the engine is built only when the cache holds none and is then the
\* cached one; a cached engine stays until the cache is cleared; so the
\* engines built are at most one more than the clears, and exactly one
\* once a script run has got to line 53 and nothing was cleared.
C13_BuiltOncePerClear ==
    /\ [](/\ nbuilds <= 1 + nclears
          /\ nclears = 0 /\ (\E s \in Sessions : run[s].gate) => nbuilds = 1)
    /\ [][/\ nbuilds' # nbuilds => cache = 0 /\ nbuilds' = nbuilds + 1 /\ cache' = nbuilds'
          /\ cache # 0 => cache' = cache \/ (cache' = 0 /\ nclears' = nclears + 1)]_vars

\* C13 witness: two sessions have run, a turn has failed and recovered, and
\* two engines were built in all.
C13_Witness ==
    /\ nclears = 1 /\ nbuilds = 2
    /\ \A s \in Sessions : run[s].gate /\ pc[s] = "idle"

\* C14: each query of a turn carries the text of the user message appended
\* in that turn, as typed, whatever the transcript held before; the retry
\* carries the same text as the first attempt.
C14_QueryIsLatestText ==
    \A s \in Sessions :
        /\ run[s].q1 # "none" =>
               /\ run[s].arg1 = run[s].text
               /\ run[s].arg1 = Transcript(s)[Len(run[s].pre) + 1].content
               /\ Transcript(s)[Len(run[s].pre) + 1].role = "user"
        /\ run[s].q2 # "none" => run[s].arg2 = run[s].arg1

\* C14 witness: in a session with an earlier answered question, the text
\* " hi" was queried, raised and was queried again.
C14_Witness ==
    \E s \in Sessions :
        /\ run[s].q2 # "none" /\ run[s].text = <<" ", "h", "i">>
        /\ Len(run[s].pre) = 2

\* A chat turn of s has started in its current or last script run.
InTurn(s) == run[s].end \in {"turn", "answered", "error"}

\* What C16 asks of a turn of s while it runs and once it is over.
C16_Turn(s) ==
    LET n == Len(run[s].pre)
        t == Transcript(s)
    IN  /\ SubSeq(t, 1, n + 1) = Append(run[s].pre, Message("user", run[s].text))
        /\ run[s].clears <= 1
        /\ run[s].clears = 1 => run[s].q1 = "raise"
        /\ run[s].q2 # "none" => run[s].q1 = "raise" /\ run[s].clears = 1
        /\ pc[s] # "idle" => Len(t) = n + 1 /\ page[s].error = "none"
        /\ pc[s] = "idle" =>
               \/ /\ run[s].end = "answered" /\ page[s].error = "none"
                  /\ Len(t) = n + 2 /\ t[n + 2].role = "assistant"
                  /\ "ok" \in {run[s].q1, run[s].q2}
               \/ /\ run[s].end = "error" /\ page[s].error = "query"
                  /\ Len(t) = n + 1
                  /\ run[s].q1 = "raise" /\ run[s].q2 = "raise"

\* C16: a turn appends its user message first, clears the cache at most
\* once and only after its first query raised, queries at most twice, and
\* ends, with an assistant message appended or with the error displayed,
\* never both.
C16_TurnOutcome ==
    /\ [](\A s \in Sessions : InTurn(s) => C16_Turn(s))
    /\ \A s \in Sessions : (pc[s] = "query") ~> (pc[s] = "idle")

\* C16 witness: one session's turn ended answered after a retry, the
\* other's ended with the error.
C16_Witness ==
    \E s, t \in Sessions :
        /\ pc[s] = "idle" /\ run[s].end = "answered" /\ run[s].q2 = "ok"
        /\ pc[t] = "idle" /\ run[t].end = "error"

\* C17: a script run of a session that has not passed the password gate
\* builds no engine.
C17_NoBuildBeforeGate ==
    \A s \in Sessions : (pc[s] = "idle" /\ ~Unlocked(s)) => run[s].startbuilds = 0

\* C17 amended: no engine is built before the first request; the first
\* script run that gets to line 53 builds it, before the password gate, so
\* every run that reached the gate, of a locked session too, has an engine,
\* and while none is built no session has got beyond line 15.
C17_BuiltAtFirstRun ==
    /\ \A s \in Sessions : run[s].gate => nbuilds >= 1
    /\ \A s \in Sessions : run[s].startbuilds = 1 => run[s].gate
    /\ nbuilds = 0 => \A s \in Sessions : session_state[s] = EmptyState /\ ~run[s].gate

\* C17 witness: the first request of a session that is not unlocked built
\* the engine.
C17_Witness ==
    \E s \in Sessions :
        /\ pc[s] = "idle" /\ ~Unlocked(s) /\ run[s].end = "gate"
        /\ run[s].startbuilds = 1 /\ nbuilds = 1

\* C18: with the sessions' script runs interleaved, the engine a turn
\* retries on was obtained after the turn's own clear and is another one
\* than the engine whose query raised, and a turn builds at most one engine,
\* and only after it cleared the cache.
C18_RetryOnNewEngine ==
    \A s \in Sessions :
        /\ pc[s] = "retry" => qe[s] # run[s].failed_on /\ qe[s] > run[s].failed_on
        /\ run[s].q2 # "none" =>
               /\ run[s].retried_on # run[s].failed_on
               /\ run[s].retried_on > run[s].failed_on
        /\ run[s].builds <= run[s].clears /\ run[s].clears <= 1

\* C18 witness: two turns failed at the same time on the same engine; each
\* cleared the cache, one rebuilt, and the other retries on the engine the
\* first built.
C18_Witness ==
    \E s, t \in Sessions :
        /\ s # t /\ pc[s] = "retry" /\ pc[t] = "retry"
        /\ run[s].failed_on = run[t].failed_on
        /\ run[s].builds = 1 /\ run[t].builds = 0
        /\ qe[s] = qe[t]

\* C19: an unlocked session is not offered the password field and stays
\* unlocked at every step; no password submission runs in it; and a plain
\* rerun of it, which only checks the flag, leaves its session state as it
\* was.
C19_StaysUnlocked ==
    /\ [](\A s \in Sessions : Unlocked(s) => ~page[s].password_input)
    /\ [][\A s \in Sessions :
            Unlocked(s) =>
                /\ Unlocked(s)'
                /\ run[s]' # run[s] => run[s]'.kind # "password"
                /\ (Has(session_state[s], "messages") /\ pc[s] = "idle"
                        /\ run[s]'.kind = "rerun") =>
                       session_state[s]' = session_state[s]]_vars

\* C19 witness: an unlocked session went through a failed turn (a cache
\* clear included) and a plain rerun after it.
C19_Witness ==
    \E s \in Sessions :
        /\ Unlocked(s) /\ pc[s] = "idle" /\ run[s].kind = "rerun"
        /\ nclears > 0 /\ Len(Transcript(s)) = 1

\* C20: in every transcript an assistant message comes right after a user
\* message, so there are no more assistant than user messages; and a user
\* message comes right after another only if the turn of the first ended
\* with the error.
C20_Alternation ==
    \A s \in Sessions :
        LET t == Transcript(s)
        IN  /\ \A i \in 1..Len(t) :
                   t[i].role = "assistant" => i > 1 /\ t[i - 1].role = "user"
            /\ Count("assistant", t) <= Count("user", t)
            /\ \A i \in 1..(Len(t) - 1) :
                   (t[i].role = "user" /\ t[i + 1].role = "user") => i \in run[s].failed

\* C20 witness: a failed turn followed by an answered one.
C20_Witness ==
    \E s \in Sessions :
        /\ Len(Transcript(s)) = 3 /\ run[s].failed = {1}
        /\ Transcript(s)[2].role = "user" /\ Transcript(s)[3].role = "assistant"

====
